---- MODULE Spec2Model ----
(***************************************************************************)
(* A model of the Prolog interpreter of src/prolog.cpp: terms (Compound,   *)
(* Variable), the binding trail (Trace), unification, clause copying and   *)
(* the depth-first resolution loop Goal::solve.                            *)
(*                                                                         *)
(* Terms are values.  A Variable is named by its index (Variable::index,   *)
(* unique per object), so V(i) stands for the pointer to the i-th Variable *)
(* object; its mutable field `instance` lives in the state function        *)
(* instance[i].  Compounds are immutable in the source and are never       *)
(* compared by address, so a Compound is the value of its functor and its  *)
(* argument pointers.  A null Goal pointer is the empty sequence.          *)
(***************************************************************************)
EXTENDS Integers, Sequences, FiniteSets, TLC

VARIABLES
    instance,   \* Variable::instance of every allocated Variable, by index
    timestamp,  \* Variable::timestamp: the number of Variables allocated
    history,    \* Trace::history: the chain of Trace nodes, newest last
    nid,        \* the number of Trace nodes allocated (a node's address)
    fault,      \* "" while running; the way the process died otherwise
    stack,      \* the activation records of Goal::solve, innermost last
    out,        \* the lines show_answer has printed, one entry per call
    mainpc,     \* main: 0 before the first solve, k in the k-th, then done
    scn,        \* which construction (programs, goal, named variables) runs
    argorder,   \* the build's evaluation order of constructor arguments
    entry,      \* per activation: instance and history at the last Note
    marks,      \* checkpoints a caller of the Trace interface holds
    last        \* the last operation of a caller of the term interface

vars == <<instance, timestamp, history, nid, fault, stack, out, mainpc, scn,
          argorder, entry, marks, last>>

(***************************************************************************)
(* Bounds of the model.                                                    *)
(***************************************************************************)
\* Depth of nested calls after which a recursion is taken to be endless
\* (the process then dies of stack exhaustion).
MaxDepth == 40
\* Variables a caller of the term interface may have allocated.
MaxVars == 3
\* Trace nodes a caller of the term interface may have allocated.
MaxNodes == 3
\* Checkpoints a caller of the Trace interface holds at once.
MaxMarks == 1

(***************************************************************************)
(* Term model.                                                             *)
(***************************************************************************)
\* A pointer to the Variable with the given index.
V(i) == [var |-> i, fn |-> "", args |-> <<>>]

\* A Compound: functor and argument pointers; arity is Len(args).
Cmp(f, as) == [var |-> 0, fn |-> f, args |-> as]
C0(f) == Cmp(f, <<>>)
C1(f, a1) == Cmp(f, <<a1>>)
C2(f, a1, a2) == Cmp(f, <<a1, a2>>)
C3(f, a1, a2, a3) == Cmp(f, <<a1, a2, a3>>)

IsVar(t) == t.var # 0

\* Atom::equal: atoms are equal iff their names are.
AtomEqual(f, g) == f = g

\* Clause(h, t): a head and a body; a null body is <<>>.
Clause(h, b) == [head |-> h, body |-> b]

(***************************************************************************)
(* The heap the term operations act on, threaded through them:             *)
(*   inst, ts    Variable::instance, Variable::timestamp                   *)
(*   hist, nid   Trace::history and the count of Trace nodes               *)
(*   fault       "" | "null" (null dereference) | "overflow" (endless      *)
(*               recursion)                                                *)
(***************************************************************************)
Heap(i, t, h, n, f) == [inst |-> i, ts |-> t, hist |-> h, nid |-> n, fault |-> f]

\* An allocation that hands out the Variable allocated last once more.
NewVariable_reuse(st) == st

\* Variable(): a new unbound Variable, instance(this), index(++timestamp).
NewVariable(st) ==
    [st EXCEPT !.ts = @ + 1, !.inst = @ @@ ((st.ts + 1) :> V(st.ts + 1))]

\* A reset that leaves the binding in place.
reset_noop(st, x) == st

\* Variable::reset
reset(st, x) == [st EXCEPT !.inst[x] = V(x)]

\* Is the Variable uninstantiated: instance == this.
Unbound(inst, x) == inst[x] = V(x)

\* Trace::Note: the address of the newest node, 0 for nullptr.
Note(st) == IF st.hist = <<>> THEN 0 ELSE st.hist[Len(st.hist)].id

\* Trace::Push
Push(st, x) ==
    [st EXCEPT !.hist = Append(@, [head |-> x, id |-> st.nid + 1]),
               !.nid = @ + 1]

RECURSIVE Undo(_, _)

\* An Undo that resets every traced Variable, whatever the checkpoint.
Undo_all(st, whereto) ==
    [st EXCEPT !.hist = <<>>,
               !.inst = [v \in DOMAIN st.inst |->
                            IF \E i \in 1..Len(st.hist) : st.hist[i].head = v
                            THEN V(v) ELSE st.inst[v]]]

\* An Undo that takes back the newest node only.
Undo_once(st, whereto) ==
    IF Note(st) = whereto \/ st.hist = <<>> THEN st
    ELSE [reset(st, st.hist[Len(st.hist)].head)
            EXCEPT !.hist = SubSeq(@, 1, Len(@) - 1)]

\* Trace::Undo: reset and drop nodes until history == whereto; running off
\* the end of the chain dereferences nullptr.
Undo(st, whereto) ==
    IF Note(st) = whereto THEN st
    ELSE IF st.hist = <<>> THEN [st EXCEPT !.fault = "null"]
    ELSE Undo([reset(st, st.hist[Len(st.hist)].head)
                 EXCEPT !.hist = SubSeq(@, 1, Len(@) - 1)], whereto)

(***************************************************************************)
(* Unification.  Every operator takes the heap and the call depth left and *)
(* returns [st, ret]: the heap after the call and the value returned.      *)
(* ret means nothing once st.fault is set.                                 *)
(***************************************************************************)
Ret(st, r) == [st |-> st, ret |-> r]

\* The element of a one-element set.  {e(r) : r \in {x}} names the value
\* of x as r in e, x being computed once.
The(S) == CHOOSE x \in S : TRUE

RECURSIVE unify(_, _, _, _), unify_compound(_, _, _, _), unify_args(_, _, _, _, _)

\* A unify that binds without recording the Variable on the trace.
Variable_unify_nopush(x, t, st, n) ==
    IF Unbound(st.inst, x)
    THEN Ret([st EXCEPT !.inst[x] = t], TRUE)
    ELSE unify(st.inst[x], t, st, n - 1)

\* Does the Variable x occur in the term t.
RECURSIVE Occurs(_, _)
Occurs(x, t) ==
    IF IsVar(t) THEN t.var = x
    ELSE \E i \in 1..Len(t.args) : Occurs(x, t.args[i])

\* A unify with an occurs check: it refuses to bind x to a Compound
\* that holds x.
Variable_unify_occurs(x, t, st, n) ==
    IF Unbound(st.inst, x)
    THEN IF ~IsVar(t) /\ Occurs(x, t) THEN Ret(st, FALSE)
         ELSE Ret([Push(st, x) EXCEPT !.inst[x] = t], TRUE)
    ELSE unify(st.inst[x], t, st, n - 1)

\* Variable::unify(t)
Variable_unify(x, t, st, n) ==
    IF Unbound(st.inst, x)
    THEN Ret([Push(st, x) EXCEPT !.inst[x] = t], TRUE)
    ELSE unify(st.inst[x], t, st, n - 1)

\* Compound::unify(t): t->unify_compound(this)
Compound_unify(c, t, st, n) == unify_compound(t, c, st, n - 1)

\* Variable::unify_compound(c): this->unify(c)
Variable_unify_compound(x, c, st, n) == unify(V(x), c, st, n - 1)

\* Compound::unify_compound(c)
Compound_unify_compound(this, c, st, n) ==
    IF ~AtomEqual(this.fn, c.fn) \/ Len(this.args) # Len(c.args)
    THEN Ret(st, FALSE)
    ELSE unify_args(this, c, 1, st, n)

\* An argument loop that goes on to the remaining pairs after a failure.
RECURSIVE unify_args_all(_, _, _, _, _)
unify_args_all(this, c, i, st, n) ==
    IF i > Len(this.args) THEN Ret(st, TRUE)
    ELSE LET r == unify(this.args[i], c.args[i], st, n - 1)
             rest == unify_args_all(this, c, i + 1, r.st, n)
         IN  Ret(rest.st, r.ret /\ rest.ret)

\* The loop of Compound::unify_compound from argument i on.
unify_args(this, c, i, st, n) ==
    IF i > Len(this.args) THEN Ret(st, TRUE)
    ELSE LET r == unify(this.args[i], c.args[i], st, n - 1)
         IN  IF r.st.fault # "" \/ ~r.ret THEN Ret(r.st, FALSE)
             ELSE unify_args(this, c, i + 1, r.st, n)

\* Term::unify, dispatched on the receiver.
unify(a, t, st, n) ==
    IF n <= 0 THEN Ret([st EXCEPT !.fault = "overflow"], FALSE)
    ELSE IF IsVar(a) THEN Variable_unify(a.var, t, st, n)
    ELSE Compound_unify(a, t, st, n)

\* Term::unify_compound, dispatched on the receiver.
unify_compound(a, c, st, n) ==
    IF n <= 0 THEN Ret([st EXCEPT !.fault = "overflow"], FALSE)
    ELSE IF IsVar(a) THEN Variable_unify_compound(a.var, c, st, n)
    ELSE Compound_unify_compound(a, c, st, n)

(***************************************************************************)
(* Copying.  The operators return [st, ret] with ret the copy.             *)
(***************************************************************************)
RECURSIVE copy(_, _), copy_args(_, _, _, _)

\* A copy that allocates a Variable at every occurrence.
Variable_copy_fresh(x, st) ==
    LET s1 == NewVariable(st) IN Ret(s1, V(s1.ts))

\* A copy that records the new Variable, not the copied one, on the trace.
Variable_copy_pushnew(x, st) ==
    IF Unbound(st.inst, x)
    THEN LET s1 == NewVariable(st)
             s2 == Push(s1, s1.ts)
         IN  Ret([s2 EXCEPT !.inst[x] = V(s2.ts)], V(s2.ts))
    ELSE Ret(st, st.inst[x])

\* A copy that binds the copied Variable without recording it on the trace.
Variable_copy_nopush(x, st) ==
    IF Unbound(st.inst, x)
    THEN LET s2 == NewVariable(st)
         IN  Ret([s2 EXCEPT !.inst[x] = V(s2.ts)], V(s2.ts))
    ELSE Ret(st, st.inst[x])

\* Variable::copy
Variable_copy(x, st) ==
    IF Unbound(st.inst, x)
    THEN LET s1 == Push(st, x)
             s2 == NewVariable(s1)
         IN  Ret([s2 EXCEPT !.inst[x] = V(s2.ts)], V(s2.ts))
    ELSE Ret(st, st.inst[x])

\* Compound::Compound(Compound *c): the arguments are copied in index order.
copy_args(c, i, acc, st) ==
    IF i > Len(c.args) THEN Ret(st, acc)
    ELSE The({copy_args(c, i + 1, Append(acc, r.ret), r.st) :
                  r \in {copy(c.args[i], st)}})

\* Compound::copy_compound
copy_compound(c, st) ==
    The({Ret(r.st, Cmp(c.fn, r.ret)) : r \in {copy_args(c, 1, <<>>, st)}})

\* Term::copy, dispatched on the receiver.
copy(t, st) == IF IsVar(t) THEN Variable_copy(t.var, st) ELSE copy_compound(t, st)

\* Goal::copy.  The two constructor arguments, the copy of the head and the
\* copy of the tail, are evaluated in an order the language leaves to the
\* build: ord is "lr" (head first) or "rl" (tail first).
RECURSIVE Goal_copy(_, _, _)
Goal_copy(g, st, ord) ==
    IF ord = "lr"
    THEN The({The({Ret(t.st, <<h.ret>> \o t.ret) :
                       t \in {IF Tail(g) # <<>> THEN Goal_copy(Tail(g), h.st, ord)
                              ELSE Ret(h.st, <<>>)}}) :
                  h \in {copy_compound(Head(g), st)}})
    ELSE The({The({Ret(h.st, <<h.ret>> \o t.ret) :
                       h \in {copy_compound(Head(g), t.st)}}) :
                  t \in {IF Tail(g) # <<>> THEN Goal_copy(Tail(g), st, ord)
                         ELSE Ret(st, <<>>)}})

\* Clause::copy, with the same freedom of order between head and body.
Clause_copy(cl, st, ord) ==
    IF ord = "lr"
    THEN The({The({Ret(b.st, Clause(h.ret, b.ret)) :
                       b \in {IF cl.body # <<>> THEN Goal_copy(cl.body, h.st, ord)
                              ELSE Ret(h.st, <<>>)}}) :
                  h \in {copy_compound(cl.head, st)}})
    ELSE The({The({Ret(h.st, Clause(h.ret, b.ret)) :
                       h \in {copy_compound(cl.head, b.st)}}) :
                  b \in {IF cl.body # <<>> THEN Goal_copy(cl.body, st, ord)
                         ELSE Ret(st, <<>>)}})

\* Goal::append(l): a new list of this list's subgoals; l is reached only
\* through the recursive call, which the last cell does not make.
RECURSIVE append(_, _)
append(g, l) ==
    <<Head(g)>> \o (IF Tail(g) # <<>> THEN append(Tail(g), l) ELSE <<>>)

(***************************************************************************)
(* Printing.  Variable::print follows instance until an unbound Variable   *)
(* (printed "_index") or a Compound (functor and printed arguments); the   *)
(* text printed is modelled by the term it spells, unbound Variables       *)
(* standing for their "_index".  A chain that never ends exhausts the      *)
(* stack: the result is then Overflow.                                     *)
(***************************************************************************)
Overflow == [var |-> -1, fn |-> "", args |-> <<>>]

RECURSIVE print(_, _, _), print_args(_, _, _, _, _)

\* The loop of Compound::print from argument i on.
print_args(c, i, acc, inst, n) ==
    IF i > Len(c.args) THEN Cmp(c.fn, acc)
    ELSE LET r == print(c.args[i], inst, n - 1)
         IN  IF r = Overflow THEN Overflow
             ELSE print_args(c, i + 1, Append(acc, r), inst, n)

\* Term::print, dispatched on the receiver.
print(t, inst, n) ==
    IF n <= 0 THEN Overflow
    ELSE IF IsVar(t)
         THEN IF Unbound(inst, t.var) THEN t ELSE print(inst[t.var], inst, n - 1)
         ELSE print_args(t, 1, <<>>, inst, n)

\* A show_answer that prints the named Variables themselves, their
\* bindings not followed.
show_answer_raw(vs, inst, n) == [i \in 1..Len(vs) |-> V(vs[i])]

\* VarMapping::show_answer: the named variables printed in order; with no
\* named variable the line "yes", here the empty list.
show_answer(vs, inst, n) == [i \in 1..Len(vs) |-> print(V(vs[i]), inst, n)]

\* Does show_answer run out of stack.
Hangs(lines) == \E i \in 1..Len(lines) : lines[i] = Overflow

(***************************************************************************)
(* Constructions: what a caller builds before it calls solve, as main      *)
(* does.  Each names the Variables it allocates (1..nvars, all unbound),   *)
(* the programs it solves the goal against one after the other, the goal   *)
(* and the named variables of its VarMapping.                              *)
(***************************************************************************)
nil == C0("nil")
i_1 == C0("1")
i_2 == C0("2")
i_3 == C0("3")
cons(h, t) == C2("cons", h, t)

\* main: var_x = 1, var_l = 2, var_m = 3, var_n = 4, var_i = 5, var_j = 6.
clause_1 == Clause(C3("app", nil, V(1), V(1)), <<>>)
clause_2 == Clause(C3("app", cons(V(1), V(2)), V(3), cons(V(1), V(4))),
                   <<C3("app", V(2), V(3), V(4))>>)
app_i_j_123 == C3("app", V(5), V(6), cons(i_1, cons(i_2, cons(i_3, nil))))
prog_1 == <<clause_1, clause_2>>
prog_2 == <<clause_2, clause_1>>

Construction(n, ps, g, vs) == [nvars |-> n, progs |-> ps, goal |-> g, vars |-> vs]

\* The construction of main.
Sample == Construction(6, <<prog_1, prog_2>>, <<app_i_j_123>>, <<5, 6>>)

\* p(a).  p(b).  ?- p(X).
TwoFacts ==
    Construction(1, << <<Clause(C1("p", C0("a")), <<>>),
                         Clause(C1("p", C0("b")), <<>>)>> >>,
                 <<C1("p", V(1))>>, <<1>>)

\* q(Y) :- r(Y).  r(a).  t(b).  ?- q(X), t(X).
Conj ==
    Construction(2, << <<Clause(C1("q", V(1)), <<C1("r", V(1))>>),
                         Clause(C1("r", C0("a")), <<>>),
                         Clause(C1("t", C0("b")), <<>>)>> >>,
                 <<C1("q", V(2)), C1("t", V(2))>>, <<2>>)

\* q(Y) :- r(Y), s.  r(a).  s.  t(a).  ?- q(X), t(X).
Conj2 ==
    Construction(2, << <<Clause(C1("q", V(1)), <<C1("r", V(1)), C0("s")>>),
                         Clause(C1("r", C0("a")), <<>>),
                         Clause(C0("s"), <<>>),
                         Clause(C1("t", C0("a")), <<>>)>> >>,
                 <<C1("q", V(2)), C1("t", V(2))>>, <<2>>)

\* p(A,A,a).  ?- p(X,X,X).
Diag ==
    Construction(2, << <<Clause(C3("p", V(1), V(1), C0("a")), <<>>)>> >>,
                 <<C3("p", V(2), V(2), V(2))>>, <<2>>)

\* p(A,A,A).  ?- p(X,Y,X).
Swap ==
    Construction(3, << <<Clause(C3("p", V(1), V(1), V(1)), <<>>)>> >>,
                 <<C3("p", V(2), V(3), V(2))>>, <<2, 3>>)

\* p(A,A,A,b).  ?- p(X,Y,X,X).
Swap2 ==
    Construction(3, << <<Clause(Cmp("p", <<V(1), V(1), V(1), C0("b")>>), <<>>)>> >>,
                 <<Cmp("p", <<V(2), V(3), V(2), V(2)>>)>>, <<2, 3>>)

\* The query of main with a shorter list: ?- app(I, J, L), against both
\* programs of main, L of length 0, 1, 2.
App0 == Construction(6, <<prog_1, prog_2>>, <<C3("app", V(5), V(6), nil)>>, <<5, 6>>)
App1 ==
    Construction(6, <<prog_1, prog_2>>,
                 <<C3("app", V(5), V(6), cons(i_1, nil))>>, <<5, 6>>)
App2 ==
    Construction(6, <<prog_1, prog_2>>,
                 <<C3("app", V(5), V(6), cons(i_1, cons(i_2, nil)))>>, <<5, 6>>)

Constructions ==
    <<Sample, TwoFacts, Conj, Conj2, Diag, Swap, Swap2, App0, App1, App2>>

\* The Variables of a term, of a goal list, of a clause, of a program.
RECURSIVE VarsOf(_)
VarsOf(t) ==
    IF IsVar(t) THEN {t.var}
    ELSE UNION {VarsOf(t.args[i]) : i \in 1..Len(t.args)}
GoalVars(g) == UNION {VarsOf(g[i]) : i \in 1..Len(g)}
ClauseVars(cl) == VarsOf(cl.head) \cup GoalVars(cl.body)
ProgramVars(p) == UNION {ClauseVars(p[i]) : i \in 1..Len(p)}

(***************************************************************************)
(* Goal::solve as a state machine.  An activation record holds the         *)
(* receiver (goal, never empty), the parameter level, the locals iter (an  *)
(* index into the program), tr, cl and gdash, and the place reached:       *)
(*   "enter"   before the trace line of the call                           *)
(*   "loop"    at the loop test                                            *)
(*   "noted"   after tr = Trace::Note()                                    *)
(*   "copied"  after cl = iter->head->copy()                               *)
(*   "try"     after the first Trace::Undo(tr)                             *)
(*   "matched" after a successful head unification, gdash formed           *)
(*   "undo"    before the closing Trace::Undo(tr)                          *)
(***************************************************************************)
NoClause == Clause(C0(""), <<>>)

Frame(g, lv) ==
    [goal |-> g, level |-> lv, iter |-> 1, tr |-> 0, cl |-> NoClause,
     gdash |-> <<>>, pc |-> "enter"]

Top == stack[Len(stack)]
SetTop(f) == [stack EXCEPT ![Len(stack)] = f]
At(place) == fault = "" /\ stack # <<>> /\ Top.pc = place

\* The program of the run in progress.
prog == Constructions[scn].progs[mainpc]

TheHeap == Heap(instance, timestamp, history, nid, fault)
Commit(st) ==
    /\ instance' = st.inst
    /\ timestamp' = st.ts
    /\ history' = st.hist
    /\ nid' = st.nid
    /\ fault' = st.fault
SameHeap == UNCHANGED <<instance, timestamp, history, nid>>
Snapshot == [inst |-> instance, hist |-> history]

\* One line of output: what was printed, at which level of which run.
Event(k, lv, text) == [k |-> k, level |-> lv, run |-> mainpc, text |-> text]

\* Goal::print and Clause::print: the terms printed, in order.
Goal_print(g, inst, n) == [i \in 1..Len(g) |-> print(g[i], inst, n)]
Clause_print(cl, inst, n) == <<print(cl.head, inst, n)>> \o Goal_print(cl.body, inst, n)

\* The goal list the matched clause leaves to solve (line 364).
Gdash(cl, tail) == IF cl.body # <<>> THEN append(cl.body, tail) ELSE tail

\* A loop that gives up the remaining clauses after the first.
NextIter_cut(f) == [f EXCEPT !.iter = Len(prog) + 1, !.pc = "loop"]

\* A loop that steps over the clause after the one just tried.
NextIter_skip(f) == [f EXCEPT !.iter = @ + 2, !.pc = "loop"]

\* The step to the next clause (the for statement's iter = iter->tail).
NextIter(f) == [f EXCEPT !.iter = @ + 1, !.pc = "loop"]

\* main: goal->solve(prog_k, 0, var_name_map)
MainCall ==
    /\ fault = "" /\ stack = <<>>
    /\ mainpc < Len(Constructions[scn].progs)
    /\ mainpc' = mainpc + 1
    /\ stack' = <<Frame(Constructions[scn].goal, 0)>>
    /\ entry' = <<Snapshot>>
    /\ UNCHANGED <<instance, timestamp, history, nid, fault, out, scn, argorder,
                   marks, last>>

\* main: return 0
MainReturn ==
    /\ fault = "" /\ stack = <<>>
    /\ mainpc = Len(Constructions[scn].progs)
    /\ mainpc' = mainpc + 1
    /\ UNCHANGED <<instance, timestamp, history, nid, fault, stack, out, scn,
                   argorder, entry, marks, last>>

\* Lines 341-344: the trace line of the call.
SolveEnter ==
    /\ At("enter")
    /\ LET text == Goal_print(Top.goal, instance, MaxDepth)
       IN  IF Hangs(text)
           THEN fault' = "overflow" /\ UNCHANGED <<stack, out>>
           ELSE /\ out' = Append(out, Event("solve", Top.level, text))
                /\ stack' = SetTop([Top EXCEPT !.pc = "loop"])
                /\ fault' = fault
    /\ SameHeap
    /\ UNCHANGED <<mainpc, scn, argorder, entry, marks, last>>

\* Lines 349-350: the loop test holds; tr = Trace::Note().
SolveNote ==
    /\ At("loop")
    /\ Top.iter <= Len(prog)
    /\ stack' = SetTop([Top EXCEPT !.tr = Note(TheHeap), !.pc = "noted"])
    /\ entry' = [entry EXCEPT ![Len(stack)] = Snapshot]
    /\ SameHeap
    /\ UNCHANGED <<fault, out, mainpc, scn, argorder, marks, last>>

\* Line 349: the loop test fails; solve returns to its caller.
SolveReturn ==
    /\ At("loop")
    /\ Top.iter > Len(prog)
    /\ stack' = SubSeq(stack, 1, Len(stack) - 1)
    /\ entry' = SubSeq(entry, 1, Len(entry) - 1)
    /\ SameHeap
    /\ UNCHANGED <<fault, out, mainpc, scn, argorder, marks, last>>

\* Line 351: cl = iter->head->copy().
SolveCopy ==
    /\ At("noted")
    /\ LET r == Clause_copy(prog[Top.iter], TheHeap, argorder)
       IN  /\ Commit(r.st)
           /\ stack' = SetTop([Top EXCEPT !.cl = r.ret, !.pc = "copied"])
    /\ UNCHANGED <<out, mainpc, scn, argorder, entry, marks, last>>

\* Line 352: Trace::Undo(tr) after the copy.
SolveUndoCopy ==
    /\ At("copied")
    /\ Commit(Undo(TheHeap, Top.tr))
    /\ stack' = SetTop([Top EXCEPT !.pc = "try"])
    /\ UNCHANGED <<out, mainpc, scn, argorder, entry, marks, last>>

\* Lines 354-364: the "try:" line, then head->unify(cl->head) returns true
\* and gdash is formed.
SolveMatch ==
    /\ At("try")
    /\ LET text == Clause_print(Top.cl, instance, MaxDepth)
           r == unify(Top.goal[1], Top.cl.head, TheHeap, MaxDepth)
       IN  /\ ~Hangs(text) /\ r.st.fault = "" /\ r.ret
           /\ Commit(r.st)
           /\ out' = Append(out, Event("try", Top.level, text))
           /\ stack' = SetTop([Top EXCEPT !.gdash = Gdash(Top.cl, Tail(Top.goal)),
                                          !.pc = "matched"])
    /\ UNCHANGED <<mainpc, scn, argorder, entry, marks, last>>

\* Lines 354-360 and 369-372: the "try:" line, then head->unify(cl->head)
\* returns false and "nomatch." is printed.
SolveNoMatch ==
    /\ At("try")
    /\ LET text == Clause_print(Top.cl, instance, MaxDepth)
           r == unify(Top.goal[1], Top.cl.head, TheHeap, MaxDepth)
       IN  /\ ~Hangs(text) /\ r.st.fault = "" /\ ~r.ret
           /\ Commit(r.st)
           /\ out' = out \o <<Event("try", Top.level, text),
                              Event("nomatch", Top.level, <<>>)>>
           /\ stack' = SetTop([Top EXCEPT !.pc = "undo"])
    /\ UNCHANGED <<mainpc, scn, argorder, entry, marks, last>>

\* Lines 354-360: printing the clause or unifying never returns (the stack
\* runs out).
SolveOverflow ==
    /\ At("try")
    /\ LET text == Clause_print(Top.cl, instance, MaxDepth)
           r == unify(Top.goal[1], Top.cl.head, TheHeap, MaxDepth)
       IN  /\ Hangs(text) \/ r.st.fault # ""
           /\ IF Hangs(text)
              THEN out' = out /\ SameHeap
              ELSE /\ out' = Append(out, Event("try", Top.level, text))
                   /\ instance' = r.st.inst /\ timestamp' = r.st.ts
                   /\ history' = r.st.hist /\ nid' = r.st.nid
    /\ fault' = "overflow"
    /\ UNCHANGED <<stack, mainpc, scn, argorder, entry, marks, last>>

\* Lines 365-366: gdash->solve(prog, level + 1, vars).
SolveCall ==
    /\ At("matched")
    /\ Top.gdash # <<>>
    /\ stack' = Append(SetTop([Top EXCEPT !.pc = "undo"]),
                       Frame(Top.gdash, Top.level + 1))
    /\ entry' = Append(entry, Snapshot)
    /\ SameHeap
    /\ UNCHANGED <<fault, out, mainpc, scn, argorder, marks, last>>

\* Lines 367-368: vars->show_answer().
SolveReport ==
    /\ At("matched")
    /\ Top.gdash = <<>>
    /\ LET text == show_answer(Constructions[scn].vars, instance, MaxDepth)
       IN  IF Hangs(text)
           THEN fault' = "overflow" /\ UNCHANGED <<stack, out>>
           ELSE /\ out' = Append(out, Event("answer", Top.level, text))
                /\ stack' = SetTop([Top EXCEPT !.pc = "undo"])
                /\ fault' = fault
    /\ SameHeap
    /\ UNCHANGED <<mainpc, scn, argorder, entry, marks, last>>

\* Lines 375 and 349: Trace::Undo(tr), then iter = iter->tail.
SolveUndo ==
    /\ At("undo")
    /\ Commit(Undo(TheHeap, Top.tr))
    /\ stack' = SetTop(NextIter(Top))
    /\ UNCHANGED <<out, mainpc, scn, argorder, entry, marks, last>>

\* The state main starts solving from: the construction's Variables, all
\* unbound, an empty trace, nothing printed.
Init ==
    /\ scn \in 1..Len(Constructions)
    /\ argorder \in {"lr", "rl"}
    /\ timestamp = Constructions[scn].nvars
    /\ instance = [i \in 1..timestamp |-> V(i)]
    /\ history = <<>>
    /\ nid = 0
    /\ fault = ""
    /\ stack = <<>>
    /\ out = <<>>
    /\ mainpc = 0
    /\ entry = <<>>
    /\ marks = <<>>
    /\ last = [op |-> "none"]

Next ==
    \/ MainCall
    \/ MainReturn
    \/ SolveEnter
    \/ SolveNote
    \/ SolveReturn
    \/ SolveCopy
    \/ SolveUndoCopy
    \/ SolveMatch
    \/ SolveNoMatch
    \/ SolveOverflow
    \/ SolveCall
    \/ SolveReport
    \/ SolveUndo

Spec == Init /\ [][Next]_vars

\* The process is scheduled as long as it has a step to take.
SpecFair == Init /\ [][Next]_vars /\ WF_vars(Next)

(***************************************************************************)
(* Properties of the resolution engine, checked under Spec.                *)
(***************************************************************************)
\* The answers show_answer printed in run r, in order.
Answers(r) == SelectSeq(out, LAMBDA e : e.k = "answer" /\ e.run = r)
AnswerTexts(r) == [i \in 1..Len(Answers(r)) |-> Answers(r)[i].text]
Range(q) == {q[i] : i \in 1..Len(q)}

\* The subgoals the clauses matched by the activations 1..i brought in.
RECURSIVE BodiesUpTo(_)
BodiesUpTo(i) == IF i = 0 THEN 0 ELSE Len(stack[i].cl.body) + BodiesUpTo(i - 1)

\* C1: after a successful head unification the next goal list is the body
\* of the instantiated clause followed by the rest of the current goal list
\* (the rest alone when the body is empty), append(B, R) being B's subgoals
\* followed by R's.
C1_NextGoalIsBodyThenRest ==
    At("matched") =>
        /\ Top.gdash = Top.cl.body \o Tail(Top.goal)
        /\ Top.cl.body # <<>> =>
               append(Top.cl.body, Tail(Top.goal)) = Top.cl.body \o Tail(Top.goal)

\* C2: the reporter runs only at the end of a derivation in which every
\* subgoal of the query and every subgoal a clause body brought in has been
\* resolved against a clause head: each activation on the stack has resolved
\* one subgoal, so at a report their number is the number of subgoals there
\* were to resolve.
C2_ReportOnlyWhenAllResolved ==
    (At("matched") /\ Top.gdash = <<>>) =>
        Len(stack) = Len(Constructions[scn].goal) + BodiesUpTo(Len(stack))

\* C3: for main's two programs and goal, each run reports exactly the four
\* splits of [1,2,3], each once; the two runs report the same set.
list_0 == nil
list_3 == cons(i_3, nil)
list_23 == cons(i_2, list_3)
list_123 == cons(i_1, list_23)
list_1 == cons(i_1, nil)
list_12 == cons(i_1, cons(i_2, nil))
Splits == {<<list_0, list_123>>, <<list_1, list_23>>, <<list_12, list_3>>,
           <<list_123, list_0>>}
NoRepeat(q) == \A i, j \in 1..Len(q) : q[i] = q[j] => i = j
C3_AppendScenario ==
    scn = 1 =>
        /\ \A r \in 1..2 : Range(AnswerTexts(r)) \subseteq Splits /\ NoRepeat(AnswerTexts(r))
        /\ (mainpc >= 2 \/ (mainpc = 1 /\ stack = <<>>)) => Range(AnswerTexts(1)) = Splits
        /\ mainpc = 3 => Range(AnswerTexts(2)) = Range(AnswerTexts(1))
        /\ fault = ""
C3_Witness ==
    /\ scn = 1 /\ mainpc = 3
    /\ Len(AnswerTexts(1)) = 4 /\ Len(AnswerTexts(2)) = 4
    /\ AnswerTexts(1) # AnswerTexts(2)

\* C4: p(a). p(b). ?- p(X) reports X = a, then X = b, and nothing else; and
\* in every run an activation moves from each clause to the next one and
\* returns only when no clause is left.
C4_FullEnumeration ==
    /\ [](scn = 2 =>
            /\ AnswerTexts(1) \in {<<>>, << <<C0("a")>> >>, << <<C0("a")>>, <<C0("b")>> >>}
            /\ mainpc = 2 => AnswerTexts(1) = << <<C0("a")>>, <<C0("b")>> >>)
    /\ [][/\ At("undo") => (Top'.iter = Top.iter + 1 /\ Top.iter <= Len(prog))
          /\ (stack # <<>> /\ Len(stack') < Len(stack)) => Top.iter = Len(prog) + 1]_vars
C4_Witness ==
    /\ scn = 2 /\ At("loop") /\ Top.iter = 2
    /\ AnswerTexts(1) = << <<C0("a")>> >>

\* C8: when an iteration of the clause loop is over, the trace and the
\* binding of every Variable that existed when it began are what they were
\* when it began; when the top-level solve has returned the trace is empty
\* as at entry and every Variable is unbound.
C8_NoResidue ==
    /\ At("loop") =>
           LET e == entry[Len(stack)]
           IN  /\ history = e.hist
               /\ \A v \in DOMAIN e.inst : instance[v] = e.inst[v]
    /\ (stack = <<>> /\ fault = "") =>
           /\ history = <<>>
           /\ \A v \in DOMAIN instance : Unbound(instance, v)
C8_Witness ==
    /\ scn = 1 /\ mainpc = 1 /\ stack = <<>> /\ nid > 0
    /\ Len(AnswerTexts(1)) = 4

\* The term with every Variable v of it replaced by sigma[v].
RECURSIVE Subst(_, _)
Subst(t, sigma) ==
    IF IsVar(t) THEN V(sigma[t.var])
    ELSE Cmp(t.fn, [i \in 1..Len(t.args) |-> Subst(t.args[i], sigma)])
SubstClause(cl, sigma) ==
    Clause(Subst(cl.head, sigma), [i \in 1..Len(cl.body) |-> Subst(cl.body[i], sigma)])

\* The Variables allocated since the last Note of the innermost activation.
FreshVars == (Len(entry[Len(stack)].inst) + 1)..timestamp

\* C9: the copy of a clause is the clause with its Variables renamed, one
\* fresh Variable for each template Variable, the same one at every
\* occurrence in head and body, different ones for different Variables.
C9_CopyRenamesConsistently ==
    At("copied") =>
        LET tmpl == prog[Top.iter]
        IN  \E sigma \in [ClauseVars(tmpl) -> FreshVars] :
                /\ \A v, w \in ClauseVars(tmpl) : sigma[v] = sigma[w] => v = w
                /\ Top.cl = SubstClause(tmpl, sigma)
C9_Witness ==
    /\ scn = 1 /\ At("copied") /\ prog[Top.iter] = clause_2
    /\ Top.cl.head.args[1].args[1] = Top.cl.head.args[3].args[1]
    /\ Top.cl.head.args[1].args[2] = Top.cl.body[1].args[1]
    /\ Top.level = 2

\* The Variables of the clause templates of the construction.
TemplateVars ==
    LET ps == Constructions[scn].progs
    IN  UNION {ProgramVars(ps[k]) : k \in 1..Len(ps)}
OnTrail(v) == \E i \in 1..Len(history) : history[i].head = v

\* C10: outside the copy step every Variable of every clause template is
\* unbound; after the undo that follows the copy, the copy holds only
\* Variables allocated by that copy, unbound and not on the trace, and the
\* trace is back at the checkpoint.
C10_TemplatesUntouched ==
    /\ (stack = <<>> \/ Top.pc # "copied") =>
           \A v \in TemplateVars : Unbound(instance, v)
    /\ At("try") =>
           /\ \A v \in ClauseVars(Top.cl) :
                  v \in FreshVars /\ Unbound(instance, v) /\ ~OnTrail(v)
           /\ Note(TheHeap) = Top.tr
           /\ history = entry[Len(stack)].hist
C10_Witness ==
    /\ scn = 1 /\ At("try") /\ history # <<>>
    /\ Cardinality(ClauseVars(Top.cl)) = 4

(***************************************************************************)
(* A caller of the term and Trace interfaces: from two unbound Variables   *)
(* it takes checkpoints, unifies and copies terms and undoes to a          *)
(* checkpoint it holds, in any order.  Undoing to a checkpoint drops the   *)
(* checkpoints taken after it.                                             *)
(***************************************************************************)
\* The terms the caller passes: the Variables allocated so far, a constant
\* and a Compound of the first two Variables.
OpLeaves == {V(i) : i \in 1..timestamp} \cup {C0("a")}
OpTerms == OpLeaves \cup {C2("f", V(1), V(2))}

Result(op, ret, popped) == [op |-> op, ret |-> ret, popped |-> popped]

InitOps ==
    /\ scn = 1
    /\ argorder = "lr"
    /\ timestamp = 2
    /\ instance = [i \in 1..timestamp |-> V(i)]
    /\ history = <<>>
    /\ nid = 0
    /\ fault = ""
    /\ stack = <<>>
    /\ out = <<>>
    /\ mainpc = 0
    /\ entry = <<>>
    /\ marks = <<>>
    /\ last = Result("none", FALSE, 0)

\* c = Trace::Note()
OpNote ==
    /\ fault = ""
    /\ Len(marks) < MaxMarks
    /\ marks' = Append(marks, [c |-> Note(TheHeap), inst |-> instance, hist |-> history])
    /\ last' = Result("note", FALSE, 0)
    /\ UNCHANGED <<instance, timestamp, history, nid, fault, stack, out, mainpc,
                   scn, argorder, entry>>

\* a->unify(b)
OpUnify ==
    /\ fault = ""
    /\ nid < MaxNodes
    /\ \E a, b \in OpTerms :
           LET r == unify(a, b, TheHeap, MaxDepth)
           IN  /\ r.st.nid <= MaxNodes
               /\ Commit(r.st)
               /\ last' = Result("unify", r.ret, 0)
    /\ UNCHANGED <<stack, out, mainpc, scn, argorder, entry, marks>>

\* t->copy()
OpCopy ==
    /\ fault = ""
    /\ \E t \in OpTerms :
           LET r == copy(t, TheHeap)
           IN  /\ r.st.nid <= MaxNodes /\ r.st.ts <= MaxVars
               /\ r.st.ts > timestamp
               /\ Commit(r.st)
               /\ last' = Result("copy", FALSE, 0)
    /\ UNCHANGED <<stack, out, mainpc, scn, argorder, entry, marks>>

\* Trace::Undo(c) for a checkpoint c the caller holds.
OpUndo ==
    /\ fault = ""
    /\ \E k \in 1..Len(marks) :
           LET st == Undo(TheHeap, marks[k].c)
           IN  /\ Commit(st)
               /\ marks' = SubSeq(marks, 1, k)
               /\ last' = Result("undo", FALSE, Len(history) - Len(st.hist))
    /\ UNCHANGED <<stack, out, mainpc, scn, argorder, entry>>

NextOps ==
    \/ OpNote
    \/ OpUnify
    \/ OpCopy
    \/ OpUndo

SpecOps == InitOps /\ [][NextOps]_vars

(***************************************************************************)
(* One unification of two terms over three unbound Variables, and then,    *)
(* as solve does after every attempt, the undo to the checkpoint taken     *)
(* before it (nullptr, the trace being empty).                             *)
(***************************************************************************)
UVars == {V(1), V(2), V(3)}
ULeaves == UVars \cup {C0("a"), C0("b")}
UFlat == {C1("f", x) : x \in ULeaves} \cup {C1("g", x) : x \in UVars}
             \cup {C2("f", x, y) : x, y \in ULeaves}
UTerms == ULeaves \cup UFlat \cup {C1("f", x) : x \in UFlat}

InitUnify ==
    /\ scn = 1
    /\ argorder = "lr"
    /\ timestamp = 3
    /\ instance = [i \in 1..timestamp |-> V(i)]
    /\ history = <<>>
    /\ nid = 0
    /\ fault = ""
    /\ stack = <<>>
    /\ out = <<>>
    /\ mainpc = 0
    /\ entry = <<>>
    /\ marks = <<>>
    /\ \E a, b \in UTerms : last = [op |-> "args", a |-> a, b |-> b, ret |-> FALSE]

\* a->unify(b)
UnifyStep ==
    /\ last.op = "args"
    /\ LET r == unify(last.a, last.b, TheHeap, MaxDepth)
       IN  /\ Commit(r.st)
           /\ last' = [last EXCEPT !.op = "unify", !.ret = r.ret]
    /\ UNCHANGED <<stack, out, mainpc, scn, argorder, entry, marks>>

\* Trace::Undo(tr), tr the checkpoint taken before the unification.
UndoStep ==
    /\ last.op = "unify" /\ fault = ""
    /\ Commit(Undo(TheHeap, 0))
    /\ last' = [last EXCEPT !.op = "undone"]
    /\ UNCHANGED <<stack, out, mainpc, scn, argorder, entry, marks>>

NextUnify ==
    \/ UnifyStep
    \/ UndoStep

SpecUnify == InitUnify /\ [][NextUnify]_vars

(***************************************************************************)
(* Properties of the Trace and of unification.                             *)
(***************************************************************************)
\* C5: after Trace::Undo(c) the trace is the trace Note() returned as c,
\* every Variable that existed then has the binding it had then (bound
\* before c: kept; bound since c: unbound again), and every Variable
\* allocated since is unbound.  (Checked under SpecOps.)
C5_UndoExact ==
    last.op = "undo" =>
        LET m == marks[Len(marks)]
        IN  /\ history = m.hist
            /\ Note(TheHeap) = m.c
            /\ \A v \in DOMAIN m.inst : instance[v] = m.inst[v]
            /\ \A v \in DOMAIN instance \ DOMAIN m.inst : Unbound(instance, v)
C5_Witness ==
    /\ last.op = "undo" /\ last.popped >= 2
    /\ timestamp > Len(marks[Len(marks)].inst)
    /\ \E v \in DOMAIN instance : ~Unbound(instance, v)

\* C6: the trace is never longer than the number of bound Variables: every
\* entry names a Variable that is bound, and no Variable is named twice.
C6_TrailWithinBound ==
    /\ Len(history) <= Cardinality({v \in DOMAIN instance : ~Unbound(instance, v)})
    /\ \A i \in 1..Len(history) : ~Unbound(instance, history[i].head)
    /\ \A i, j \in 1..Len(history) : history[i].head = history[j].head => i = j

\* The term at the end of the chain of bindings from t: an unbound Variable
\* or a Compound; Overflow when the chain of Variables never ends (k counts
\* the Variables a chain without a cycle can pass).
RECURSIVE walk(_, _, _)
walk(t, inst, k) ==
    IF ~IsVar(t) \/ Unbound(inst, t.var) THEN t
    ELSE IF k = 0 THEN Overflow
    ELSE walk(inst[t.var], inst, k - 1)

\* Depth to which two dereferenced terms are compared.
CompareDepth == 6

\* Do a and b, with bindings followed, spell the same term down to depth d.
RECURSIVE SameTerm(_, _, _, _)
SameTerm(a, b, inst, d) ==
    LET x == walk(a, inst, Len(inst))
        y == walk(b, inst, Len(inst))
    IN  IF x = Overflow \/ y = Overflow THEN FALSE
        ELSE IF IsVar(x) \/ IsVar(y) THEN x = y
        ELSE \/ d = 0
             \/ /\ x.fn = y.fn
                /\ Len(x.args) = Len(y.args)
                /\ \A i \in 1..Len(x.args) : SameTerm(x.args[i], y.args[i], inst, d - 1)

\* C7: when unify(a, b) returns true from a state without bindings, a and b
\* with the bindings followed are the same term.  (Checked under SpecUnify.)
C7_UnifySymmetry ==
    (last.op = "unify" /\ fault = "" /\ last.ret) =>
        SameTerm(last.a, last.b, instance, CompareDepth)

\* C11: unifying an unbound Variable X with a Compound that holds X, as an
\* argument or deeper, returns true and binds X to that Compound, whichever
\* of the two is the receiver.  (Checked under SpecUnify.)
C11_NoOccursCheck ==
    \A x \in 1..3 :
        \A c \in {last.a, last.b} :
            (/\ last.op = "unify"
             /\ V(x) \in {last.a, last.b}
             /\ ~IsVar(c) /\ x \in VarsOf(c)) =>
                /\ fault = "" /\ last.ret
                /\ instance[x] = c
                /\ x \in VarsOf(instance[x])
                /\ history = <<[head |-> x, id |-> 1]>>
C11_Witness ==
    /\ last.op = "unify" /\ last.ret
    /\ last.a = C1("f", C1("f", V(2))) /\ last.b = V(2)
    /\ instance[2] = last.a

\* The leaves a term of UTerms has as arguments unify, from no bindings,
\* unless they are two different constants.
LeavesClash(x, y) == ~IsVar(x) /\ ~IsVar(y) /\ x # y
AllUnbound == \A v \in DOMAIN instance : Unbound(instance, v)

\* C12: when two Compounds f(a1,a2), f(b1,b2) fail to unify, the pairs are
\* taken in index order and none after the failing one is looked at: if
\* the first pair clashes nothing is bound, whatever the second pair is; if
\* the first pair binds a Variable and the second pair fails, that binding
\* is in place and on the trace when unify returns, and is gone only after
\* the caller's Undo.  (Checked under SpecUnify.)
C12_PartialCommit ==
    LET a == last.a
        b == last.b
        Pairs == /\ ~IsVar(a) /\ ~IsVar(b) /\ a.fn = b.fn
                 /\ Len(a.args) = 2 /\ Len(b.args) = 2
    IN  /\ (last.op = "unify" /\ Pairs /\ LeavesClash(b.args[1], a.args[1])) =>
               ~last.ret /\ history = <<>> /\ AllUnbound
        /\ (last.op = "unify" /\ Pairs /\ ~last.ret
               /\ ~LeavesClash(b.args[1], a.args[1])) =>
               /\ fault = ""
               /\ Len(history) <= 1
               /\ IsVar(b.args[1]) =>
                      /\ history = <<[head |-> b.args[1].var, id |-> 1]>>
                      /\ instance[b.args[1].var] = a.args[1]
               /\ (~IsVar(b.args[1]) /\ IsVar(a.args[1])) =>
                      /\ history = <<[head |-> a.args[1].var, id |-> 1]>>
                      /\ instance[a.args[1].var] = b.args[1]
        /\ last.op = "undone" => history = <<>> /\ AllUnbound
C12_Witness ==
    /\ last.op = "unify" /\ ~last.ret
    /\ last.a = C2("f", V(1), C0("a")) /\ last.b = C2("f", C0("b"), C0("b"))
    /\ instance[1] = C0("b") /\ Len(history) = 1

\* C13: every Variable that is bound, by unify or by copy, has an entry on
\* the trace.  (Checked under SpecOps.)
C13_BoundIsOnTrail ==
    \A v \in DOMAIN instance : ~Unbound(instance, v) => OnTrail(v)
C13_Witness ==
    /\ fault = "" /\ timestamp = 3
    /\ instance[1] = V(3) /\ instance[2] = C0("a")
    /\ OnTrail(1) /\ OnTrail(2)

(***************************************************************************)
(* The order of the steps of Goal::solve, checked under Spec.              *)
(***************************************************************************)
\* A term with its Variables made anonymous.
RECURSIVE Erase(_)
Erase(t) ==
    IF IsVar(t) THEN C0("_")
    ELSE Cmp(t.fn, [i \in 1..Len(t.args) |-> Erase(t.args[i])])
EraseAll(q) == [i \in 1..Len(q) |-> Erase(q[i])]
EraseClause(cl) == <<Erase(cl.head)>> \o EraseAll(cl.body)

\* The "try:" lines of the activation at level lv: those at its level after
\* the "solve@" line it printed on entry.
TriesOf(lv) ==
    LET S == {j \in 1..Len(out) :
                 out[j].k = "solve" /\ out[j].level = lv /\ out[j].run = mainpc}
        from == CHOOSE j \in S : \A h \in S : h <= j
    IN  SelectSeq(SubSeq(out, from + 1, Len(out)),
                  LAMBDA e : e.k = "try" /\ e.level = lv)

\* Are a and b, with the bindings of the heap followed, the same term.
Unified(a, b, inst) == SameTerm(a, b, inst, CompareDepth)
HasVarCycle(inst) ==
    \E v \in DOMAIN inst : walk(V(v), inst, Len(inst)) = Overflow

\* Every activation has so far tried the clauses 1..k of the program, one
\* "try:" line each, in program order; every activation but the innermost
\* waits for the solve it called.  (A process that died of stack exhaustion
\* in the middle of an attempt is not looked at.)
C14_Attempts ==
    fault = "" => \A i \in 1..Len(stack) :
        LET f == stack[i]
            tried == IF f.pc \in {"matched", "undo"} THEN f.iter ELSE f.iter - 1
        IN  /\ f.level = i - 1
            /\ i < Len(stack) => f.pc = "undo"
            /\ f.iter \in 1..(Len(prog) + 1)
            /\ f.pc # "enter" =>
                   /\ Len(TriesOf(f.level)) = tried
                   /\ \A k \in 1..tried :
                          EraseAll(TriesOf(f.level)[k].text) = EraseClause(prog[k])

\* One step of the innermost activation.
C14_Step ==
    /\ \A i \in 1..(Len(stack) - 1) : Len(stack') >= i /\ stack'[i] = stack[i]
    /\ (At("loop") /\ Len(stack') = Len(stack)) =>
           /\ Top.iter <= Len(prog)
           /\ Top' = [Top EXCEPT !.pc = "noted", !.tr = Note(TheHeap)]
           /\ history' = history /\ instance' = instance /\ out' = out
    /\ (At("loop") /\ Len(stack') < Len(stack)) =>
           Top.iter = Len(prog) + 1 /\ out' = out /\ history' = history
    /\ At("noted") =>
           /\ Top'.pc = "copied" /\ Top'.iter = Top.iter /\ Top'.tr = Top.tr
           /\ EraseClause(Top'.cl) = EraseClause(prog[Top.iter])
           /\ out' = out
    /\ At("copied") =>
           /\ Top' = [Top EXCEPT !.pc = "try"]
           /\ history' = entry[Len(stack)].hist
           /\ out' = out
    /\ (At("try") /\ fault' = "") =>
           LET try == Event("try", Top.level, Clause_print(Top.cl, instance, MaxDepth))
           IN  \/ /\ Top'.pc = "matched"
                  /\ out' = Append(out, try)
                  /\ \/ Unified(Top.goal[1], Top.cl.head, instance')
                     \/ HasVarCycle(instance')
               \/ /\ Top'.pc = "undo"
                  /\ out' = out \o <<try, Event("nomatch", Top.level, <<>>)>>
                  /\ ~Unified(Top.goal[1], Top.cl.head, instance')
    /\ (At("matched") /\ fault' = "") =>
           /\ history' = history /\ instance' = instance
           /\ IF Top.gdash # <<>>
              THEN /\ stack' = Append(SetTop([Top EXCEPT !.pc = "undo"]),
                                      Frame(Top.gdash, Top.level + 1))
                   /\ out' = out
              ELSE /\ stack' = SetTop([Top EXCEPT !.pc = "undo"])
                   /\ Len(out') = Len(out) + 1
                   /\ out'[Len(out')].k = "answer"
    /\ At("undo") =>
           /\ Top' = [Top EXCEPT !.pc = "loop", !.iter = @ + 1]
           /\ history' = entry[Len(stack)].hist
           /\ Note(TheHeap)' = Top.tr
           /\ out' = out

\* C14: every invocation of solve tries every clause once, in program
\* order; an attempt is checkpoint, copy, undo, head unification, then on
\* success the recursive solve at level + 1 or the report, then undo;
\* "nomatch." is printed exactly when the head unification fails; the
\* recursive solve is over before the next clause is tried.
C14_AttemptProtocol == []C14_Attempts /\ [][C14_Step]_vars
C14_Witness ==
    /\ scn = 1 /\ mainpc = 2 /\ At("loop")
    /\ Top.level = 0 /\ Top.iter = 3
    /\ Len(TriesOf(0)) = 2
    /\ \E j \in 1..Len(out) : out[j].k = "nomatch" /\ out[j].run = 2

\* The term t spells with the bindings followed, to depth d.
RECURSIVE Resolve(_, _, _)
Resolve(t, inst, d) ==
    LET x == walk(t, inst, Len(inst))
    IN  IF d = 0 \/ x = Overflow THEN Overflow
        ELSE IF IsVar(x) THEN x
        ELSE Cmp(x.fn, [i \in 1..Len(x.args) |-> Resolve(x.args[i], inst, d - 1)])

\* The Variables of the goal lists and clause copies of the activations on
\* the stack: those of the derivation being explored.
PathVars ==
    UNION {GoalVars(stack[i].goal) \cup ClauseVars(stack[i].cl) : i \in 1..Len(stack)}
IsPrefix(p, q) == Len(p) <= Len(q) /\ SubSeq(q, 1, Len(p)) = p
AnswerCount == Len(SelectSeq(out, LAMBDA e : e.k = "answer"))

\* The innermost activation has just printed an answer.
JustReported ==
    /\ At("undo") /\ out # <<>>
    /\ out[Len(out)].k = "answer" /\ out[Len(out)].level = Top.level

\* At a report: the lines printed are the named variables under the
\* bindings in place; the head unification of every attempt on the path
\* holds; the trace extends the checkpoint of every attempt on the path,
\* from the empty trace of the outermost one; and nothing is bound but
\* Variables of the path (none of an attempt given up before).
C15_AtReport ==
    JustReported =>
        /\ out[Len(out)].text =
               [i \in 1..Len(Constructions[scn].vars) |->
                    Resolve(V(Constructions[scn].vars[i]), instance, MaxDepth)]
        /\ \A i \in 1..Len(stack) :
               /\ stack[i].pc = "undo"
               /\ Unified(stack[i].goal[1], stack[i].cl.head, instance)
               /\ IsPrefix(entry[i].hist, history)
               /\ i > 1 => IsPrefix(entry[i - 1].hist, entry[i].hist)
        /\ entry[1].hist = <<>>
        /\ \A v \in DOMAIN instance :
               ~Unbound(instance, v) =>
                   v \in PathVars /\ VarsOf(instance[v]) \subseteq PathVars

\* An answer is printed by a step exactly when the step starts after a
\* successful head unification with nothing left to solve; the step leaves
\* bindings and trace alone, and the step after it undoes and goes to the
\* next clause of the same activation.
C15_Step ==
    /\ (AnswerCount' > AnswerCount) <=> (At("matched") /\ Top.gdash = <<>> /\ fault' = "")
    /\ (AnswerCount' > AnswerCount) =>
           /\ AnswerCount' = AnswerCount + 1
           /\ instance' = instance /\ history' = history
           /\ JustReported'
    /\ JustReported =>
           /\ Len(stack') = Len(stack)
           /\ Top' = [Top EXCEPT !.pc = "loop", !.iter = @ + 1]
           /\ history' = entry[Len(stack)].hist

\* C15: show_answer is called exactly when a successful head unification
\* leaves an empty goal list, before the undo of that attempt and of every
\* enclosing one, so with the bindings of the whole derivation path in
\* place and none of an abandoned attempt; the search then goes on with the
\* next clause.
C15_ReportTiming == []C15_AtReport /\ [][C15_Step]_vars
C15_Witness ==
    /\ scn = 1 /\ JustReported /\ Len(stack) = 4
    /\ out[Len(out)].text = <<list_123, list_0>>
    /\ Len(history) > 6

\* C16: the bindings never form a cycle made of variables alone, so that
\* following a chain of bound variables always ends.
C16_NoVariableCycle == ~HasVarCycle(instance)

\* Is the checkpoint c a suffix of the trail h: nullptr, or a node of h.
IsSuffix(c, h) == c = 0 \/ \E k \in 1..Len(h) : h[k].id = c
\* How many nodes the suffix c holds.
SuffixLen(c, h) == IF c = 0 THEN 0 ELSE CHOOSE k \in 1..Len(h) : h[k].id = c
\* The activations whose tr holds the checkpoint of the attempt in progress.
Noted == {i \in 1..Len(stack) : stack[i].pc \notin {"enter", "loop"}}

\* Undo has never run past the end of the trail; the nodes of the trail have
\* different addresses; the checkpoint of every attempt in progress is a
\* suffix of the trail, that of an inner attempt holding that of every outer
\* one.
C17_Checkpoints ==
    /\ fault # "null"
    /\ \A j, k \in 1..Len(history) : history[j].id = history[k].id => j = k
    /\ \A i \in Noted : IsSuffix(stack[i].tr, history)
    /\ \A i, j \in Noted :
           i < j => SuffixLen(stack[i].tr, history)
                        <= SuffixLen(stack[j].tr, history)

\* The trail is cut only by the Undo calls of the innermost activation, back
\* to the checkpoint that activation took last, which is the one taken last
\* of all those not yet undone; what is left is that suffix, and the
\* checkpoints of the enclosing activations are still in it.
C17_Step ==
    /\ (At("copied") \/ At("undo")) =>
           /\ fault' = ""
           /\ history' = SubSeq(history, 1, SuffixLen(Top.tr, history))
           /\ \A i \in Noted \ {Len(stack)} :
                  /\ stack'[i] = stack[i]
                  /\ IsSuffix(stack[i].tr, history')
    /\ Len(history') < Len(history) => (At("copied") \/ At("undo"))
    /\ At("loop") /\ Len(stack') = Len(stack) =>
           /\ Top'.tr = Note(TheHeap)
           /\ \A i \in Noted :
                  SuffixLen(stack[i].tr, history) <= SuffixLen(Top'.tr, history)

\* C17: every Trace::Undo(c) of a solve run is called with c a suffix of the
\* current trail, so it ends without running off the trail; the checkpoints
\* of nested solve calls are undone last taken, first undone.
C17_TrailDiscipline == []C17_Checkpoints /\ [][C17_Step]_vars
C17_Witness ==
    /\ At("loop") /\ Len(stack) = 3 /\ Top.iter = 2
    /\ stack[2].pc = "undo"
    /\ 0 < SuffixLen(stack[2].tr, history)
    /\ SuffixLen(stack[2].tr, history) < SuffixLen(Top.tr, history)
    /\ SuffixLen(Top.tr, history) = Len(history)

\* The clause copies held by the activations on the stack.
Copies == {i \in 1..Len(stack) : stack[i].cl # NoClause}

\* The Variables of the clause copies of different activations are
\* different, and none of them is a Variable of the query or of a clause
\* template.
C18_CopiesDisjoint ==
    \A i \in Copies :
        /\ ClauseVars(stack[i].cl) \cap (1..Constructions[scn].nvars) = {}
        /\ ClauseVars(stack[i].cl) \cap TemplateVars = {}
        /\ \A j \in Copies :
               i # j => ClauseVars(stack[i].cl) \cap ClauseVars(stack[j].cl) = {}

\* The copy step hands the attempt a clause whose Variables were all
\* allocated by that step: none of them existed before it.
C18_Step ==
    At("noted") /\ fault' = "" =>
        /\ Top'.pc = "copied"
        /\ ClauseVars(Top'.cl) \subseteq (timestamp + 1)..timestamp'
        /\ Cardinality(ClauseVars(Top'.cl)) = Cardinality(ClauseVars(prog[Top.iter]))
        /\ \A v \in ClauseVars(Top'.cl) : v \notin DOMAIN instance

\* C18: the Variables of the clause copy made for one attempt are different
\* from every Variable that existed before the copy, so no two attempts,
\* two attempts of one clause at different depths included, share a
\* Variable.
C18_FreshPrivate == []C18_CopiesDisjoint /\ [][C18_Step]_vars
C18_Witness ==
    /\ scn = 1 /\ At("copied") /\ Len(stack) = 3
    /\ prog[stack[1].iter] = clause_2 /\ prog[stack[2].iter] = clause_2
    /\ prog[Top.iter] = clause_2
    /\ Cardinality(ClauseVars(stack[1].cl) \cup ClauseVars(stack[2].cl)
                       \cup ClauseVars(Top.cl)) = 12

\* The constructions that ask app(I, J, L) of the two app clauses, and the
\* length of the cons/nil list L of each.
AppScns == {k \in 1..Len(Constructions) :
                Constructions[k].progs = <<prog_1, prog_2>>}
RECURSIVE ListLen(_)
ListLen(t) == IF t = nil THEN 0 ELSE 1 + ListLen(t.args[2])
AppLen == ListLen(Constructions[scn].goal[1].args[3])
Finished == mainpc = Len(Constructions[scn].progs) + 1 /\ stack = <<>>

\* While app(I, J, L) is being solved, L of length n: no fault, at most
\* n + 1 activations of solve, at levels 0..n.
C19_Depth ==
    scn \in AppScns =>
        /\ fault = ""
        /\ Len(stack) <= AppLen + 1
        /\ \A i \in 1..Len(stack) : stack[i].level = i - 1

\* C19: for app(I, J, L), L a ground cons/nil list of length n <= 3, and the
\* two app clauses in either order, every solve call returns, main with it,
\* and solve is never more than n + 1 levels deep.
C19_SampleTerminates ==
    /\ [](C19_Depth)
    /\ (scn \in AppScns /\ mainpc = 0) ~> (scn \in AppScns /\ Finished /\ fault = "")
C19_Witness ==
    /\ scn \in AppScns /\ AppLen = 2 /\ Finished
    /\ \E i, j \in 1..Len(out) :
           /\ out[i].k = "solve" /\ out[i].level = 2 /\ out[i].run = 1
           /\ out[j].k = "solve" /\ out[j].level = 2 /\ out[j].run = 2
    /\ Len(AnswerTexts(1)) = 3 /\ Len(AnswerTexts(2)) = 3

====
